---- MODULE Spec2Model ----
(***************************************************************************)
(* The self-healing code workflow of                                       *)
(* all_agents_tutorials/memory_management.ipynb: a LangGraph state graph   *)
(* over the pydantic State, whose nodes run the target function, report    *)
(* the bug, search / update / generate memories, ask the LLM for a fix     *)
(* and exec it.                                                            *)
(*                                                                         *)
(* The other graphs of the repository (memory management Part III, memory  *)
(* generation, schema generation) and a second, concurrent self-healing    *)
(* run live in the variable wf, each with a specification of its own.      *)
(*                                                                         *)
(* One action is one node execution followed by the evaluation of the      *)
(* edge or conditional edge attached to the node.  The LLM, the target     *)
(* function and the fix text are inputs drawn from small sets.             *)
(***************************************************************************)
EXTENDS Integers, Sequences, FiniteSets, TLC

\* ------------------------------------------------------------------ bounds
\* Largest memory store explored; a generation on a full store ends the
\* exploration of that run (pc = CUTOFF).
MaxMemories == 2
\* Longest index list the LLM answers to memory_search_node.
MaxIndexes == 2
\* The per-node execution counters saturate at this value.
MaxCount == 2

\* --------------------------------------------------------- the node names
Nodes ==
  {"run_code", "update_code", "fix_code", "bug_report_node",
   "memory_search_node", "memory_modification_node", "memory_generation_node"}

\* langgraph.graph.END
END == "__end__"
\* an exception left the graph: graph.stream raised into the caller
RAISED == "raised"
\* exploration bound reached (not a program state)
CUTOFF == "cutoff"

\* ------------------------------------------------- target function, texts
\* The names a function definition can have.  fix_code looks one of them up.
Names == {"divide_two_numbers", "other_function"}

\* Argument lists a run is started with.
ArgLists == {<<10, 0>>, <<10, 2>>}

\* str(e) of the exceptions the target function raises.
ErrorDescriptions == {"division by zero"}

\* What one invocation does: returns, or raises with a description.
Outcomes == {"ok"} \cup ErrorDescriptions

\* The behaviour of a function body on each argument list.
Bodies == [ArgLists -> Outcomes]

\* A callable: its __name__ and what calling it does.
Callables == [name : Names, body : Bodies]

\* A Python source text, by what exec() does with it: raise (loads = FALSE)
\* or bind the defined callables in the namespace.
DefText(f) == [loads |-> TRUE, defs |-> {f}]
EmptyText == [loads |-> TRUE, defs |-> {}]
MalformedText == [loads |-> FALSE, defs |-> {}]
Texts == {EmptyText, MalformedText} \cup {DefText(f) : f \in Callables}

\* inspect.getsource(function): the text of the definition of the function.
getsource(f) == DefText(f)

\* state.function(*state.arguments)
Invoke(f, args) == f.body[args]

\* ------------------------------------------------------------ LLM answers
\* llm.invoke raised (timeout, transport error, ...)
LLMError == "<llm error>"
BugReports == {"report"}
MemoryTexts == {"memory A", "memory B"}

\* A JSON value inside the list answered to memory_search_node: an integer
\* or something else (a string, a float, ...).
JsonInt(n) == [int |-> TRUE, v |-> n]
JsonOther == [int |-> FALSE, v |-> 0]
JsonValues == {JsonInt(n) : n \in -1 .. MaxMemories} \cup {JsonOther}

RECURSIVE SeqsUpTo(_, _)
SeqsUpTo(S, n) ==
  IF n = 0 THEN {<<>>}
  ELSE LET shorter == SeqsUpTo(S, n - 1)
       IN  shorter \cup {Append(q, x) : q \in {r \in shorter : Len(r) = n - 1}, x \in S}

\* The answers json.loads turns into a list.  An answer json.loads rejects
\* raises in memory_search_node like a failed llm.invoke; answers that are
\* JSON values other than a list are not explored.
IndexLists == SeqsUpTo(JsonValues, MaxIndexes)

\* ------------------------------------------------------------------ state
VARIABLES
  state,     \* the State object threaded through the nodes
  pc,        \* the node to execute next, or END / RAISED / CUTOFF
  calls,     \* how many times each node has executed in this run (saturating)
  cycle,     \* the nodes executed since the last run_code, run_code included
  invoked,   \* outcome of the most recent invocation of state.function ("none" before)
  answered,  \* the list json.loads returned in the node that just ran, if it was
             \* memory_search_node: {list}, otherwise {}
  target,    \* the function object the caller holds and passes to
             \* run_self_healing_code_system (the global divide_two_numbers)
  wf,        \* a run of another graph (or a second self-healing run): a record
             \* with its graph, State and next node; NoRun when there is none
  cancel_requested,  \* somebody asked for the self-healing run to be cancelled
  last_state \* the local variable last_state of run_self_healing_code_system:
             \* <<>> while unbound, else <<the latest output of graph.stream>>

vars == <<state, pc, calls, cycle, invoked, answered, target, wf, cancel_requested,
          last_state>>

\* what the nodes of the self-healing run never touch
env == <<target, wf, cancel_requested>>

NoRun == [graph |-> "none"]

\* class State(BaseModel): the declared fields and their annotations
FieldType ==
  [function |-> "Callable", function_string |-> "str", arguments |-> "list",
   error |-> "bool", error_description |-> "str", new_function_string |-> "str",
   bug_report |-> "str", memories |-> "list", memory_indexes_to_update |-> "list"]

StateFields == DOMAIN FieldType

\* ------------------------------------------------------------- the nodes
\* run_code that sets the flag but does not store str(e)
run_code_keeps_description(s) ==
  LET out == Invoke(s.function, s.arguments)
  IN  IF out = "ok" THEN s ELSE [s EXCEPT !.error = TRUE]

\* run_code that stores str(e) but does not set the flag
run_code_drops_flag(s) ==
  LET out == Invoke(s.function, s.arguments)
  IN  IF out = "ok" THEN s ELSE [s EXCEPT !.error_description = out]

run_code(s) ==
  LET out == Invoke(s.function, s.arguments)
  IN  IF out = "ok" THEN s
      ELSE [s EXCEPT !.error = TRUE, !.error_description = out]

\* update_code that already installs a function the answer defines
update_code_installs(s, response) ==
  [s EXCEPT !.new_function_string = response,
            !.function = IF response.defs = {} THEN @ ELSE CHOOSE f \in response.defs : TRUE]

update_code(s, response) == [s EXCEPT !.new_function_string = response]

\* the name fix_code reads from the namespace
FixedName == "divide_two_numbers"

\* exec(new_code, namespace) raised, or namespace[...] raised KeyError
FixFails(s) ==
  \/ ~s.new_function_string.loads
  \/ \A f \in s.new_function_string.defs : f.name # FixedName

\* fix_code that installs the function but leaves the flag as it was
fix_code_keeps_flag(s) ==
  IF FixFails(s) THEN s
  ELSE [s EXCEPT !.function = CHOOSE f \in s.new_function_string.defs : f.name = FixedName]

fix_code(s) ==
  IF FixFails(s) THEN s
  ELSE [s EXCEPT !.function = CHOOSE f \in s.new_function_string.defs : f.name = FixedName,
                 !.error = FALSE]

\* bug_report_node replacing the arguments by ones that work
bug_report_node_swaps_arguments(s, response) ==
  [s EXCEPT !.bug_report = response, !.arguments = <<10, 2>>]

bug_report_node(s, response) == [s EXCEPT !.bug_report = response]

\* memory_search_node emptying the store
memory_search_node_clears_store(s, indexes) ==
  [s EXCEPT !.memory_indexes_to_update = indexes, !.memories = <<>>]

memory_search_node(s, indexes) == [s EXCEPT !.memory_indexes_to_update = indexes]

\* memory_generation_node inserting the new record at the front
memory_generation_node_prepends(s, response) ==
  [s EXCEPT !.memories = <<response>> \o @]

memory_generation_node(s, response) == [s EXCEPT !.memories = Append(@, response)]

\* state.memories[i] for a popped value i: TypeError for a non-integer,
\* IndexError outside -len .. len-1
SubscriptRaises(mems, i) == ~i.int \/ i.v >= Len(mems) \/ i.v < -Len(mems)

\* The position (1-based) Python's list subscript i addresses.
Position(mems, i) == IF i.v >= 0 THEN i.v + 1 ELSE Len(mems) + i.v + 1

\* memory_modification_node dropping the addressed record
memory_modification_node_deletes(s, response) ==
  LET i == Head(s.memory_indexes_to_update)
      p == Position(s.memories, i)
  IN  [s EXCEPT !.memory_indexes_to_update = Tail(@),
                !.memories = SubSeq(@, 1, p - 1) \o SubSeq(@, p + 1, Len(@))]

memory_modification_node(s, response) ==
  LET i == Head(s.memory_indexes_to_update)
  IN  [s EXCEPT !.memory_indexes_to_update = Tail(@),
                !.memories[Position(s.memories, i)] = response]

\* ------------------------------------------------------------ the routers
\* error_router with its two branches exchanged
error_router_swapped(s) == IF s.error THEN END ELSE "bug_report_node"

error_router(s) == IF s.error THEN "bug_report_node" ELSE END

\* modification_router going straight to update_code on an empty queue
modification_router_skips(s) ==
  IF s.memory_indexes_to_update # <<>> THEN "memory_modification_node"
  ELSE "update_code"

modification_router(s) ==
  IF s.memory_indexes_to_update # <<>> THEN "memory_modification_node"
  ELSE "memory_generation_node"

\* update_memory leaving the update loop after the first update
update_memory_leaves_early(s) == "update_code"

\* update_memory leaving the update loop through memory_generation_node
update_memory_generates(s) ==
  IF s.memory_indexes_to_update # <<>> THEN "memory_modification_node"
  ELSE "memory_generation_node"

update_memory(s) ==
  IF s.memory_indexes_to_update # <<>> THEN "memory_modification_node"
  ELSE "update_code"

\* ------------------------------- Part III: the memory management workflow
\* class State of Part III and the State run_memory_system constructs
III_NewState(mems) ==
  [interaction |-> "interaction", memory_schema |-> <<>>, memory_labels |-> <<>>,
   memories |-> mems, memory_indexes_to_update |-> <<>>]

III_memory_search_node(s, indexes) == [s EXCEPT !.memory_indexes_to_update = indexes]

III_memory_modification_node(s, response) ==
  LET i == Head(s.memory_indexes_to_update)
  IN  [s EXCEPT !.memory_indexes_to_update = Tail(@),
                !.memories[Position(s.memories, i)] = response]

III_modification_router(s) ==
  IF s.memory_indexes_to_update # <<>> THEN "memory_modification_node" ELSE END

\* ------------------------------------- the memory generation workflow
\* Longest LLM answer (in characters) to memory_type_determination_node.
MaxChars == 3
Chars == {"a", "b", "|", " "}
\* llm.invoke(...).content of memory_type_determination_node
Responses == SeqsUpTo(Chars, MaxChars)

\* str.strip(): leading and trailing whitespace removed
RECURSIVE lstrip(_)
lstrip(t) == IF t # <<>> /\ Head(t) = " " THEN lstrip(Tail(t)) ELSE t
RECURSIVE rstrip(_)
rstrip(t) == IF t # <<>> /\ t[Len(t)] = " " THEN rstrip(SubSeq(t, 1, Len(t) - 1)) ELSE t
strip(t) == rstrip(lstrip(t))

\* str.split('|'): the pieces between the bars, empty pieces included
RECURSIVE split(_)
split(t) ==
  IF \A k \in 1 .. Len(t) : t[k] # "|" THEN <<t>>
  ELSE LET k == CHOOSE k \in 1 .. Len(t) : t[k] = "|" /\ \A j \in 1 .. k - 1 : t[j] # "|"
       IN  <<SubSeq(t, 1, k - 1)>> \o split(SubSeq(t, k + 1, Len(t)))

\* run_memory_generator: the State it constructs
MG_NewState ==
  [interaction |-> "interaction", memory_schema |-> <<"schema">>,
   memory_labels |-> <<>>, memories |-> <<>>]

memory_type_determination_node(s, response) ==
  [s EXCEPT !.memory_labels = split(strip(response))]

\* memory_label = state.memory_labels[0], the label put in the prompt
MG_memory_label(s) == s.memory_labels[1]

\* memory_generation_node popping the last label instead of the first
MG_memory_generation_node_pops_last(s, memory) ==
  [s EXCEPT !.memory_labels = SubSeq(@, 1, Len(@) - 1),
            !.memories = Append(@, memory)]

MG_memory_generation_node(s, memory) ==
  [s EXCEPT !.memory_labels = Tail(@), !.memories = Append(@, memory)]

generate_memory(s) ==
  IF s.memory_labels # <<>> THEN "memory_generation_node" ELSE END

\* ------------------------------------- the schema generation workflow
\* Longest memory_schema explored; a generation on a full list ends the
\* exploration of that run (wf.pc = CUTOFF).
MaxSchemas == 3
Schemas == {"schema A", "schema B"}
\* what the user types at 'Do you wish to iterate over this schema?'
Answers == {"no", "n", "quit", "q", "exit", "e", "yes", "No", ""}
\* what the user types at 'Please provide updated instructions'
Instructions == {"more detail", "no"}
\* Optional[str] = None
None == "None"

\* run_schema_generator: the State it constructs
SG_NewState == [idea |-> "idea", memory_schema |-> <<>>, update_instructions |-> None]

\* schema_generation_node keeping only the newest schema
schema_generation_node_replaces(s, memories) ==
  [s EXCEPT !.memory_schema = <<memories>>]

schema_generation_node(s, memories) ==
  [s EXCEPT !.memory_schema = Append(@, memories)]

update_instrctions_node(s, new_instructions) ==
  [s EXCEPT !.update_instructions = new_instructions]

\* update_schema that also stops on a capitalised 'No'
update_schema_stops_on_No(s, instructions) ==
  IF instructions \in {"no", "n", "quit", "q", "exit", "e", "No"} THEN END
  ELSE "update_instrctions_node"

update_schema(s, instructions) ==
  IF instructions \in {"no", "n", "quit", "q", "exit", "e"} THEN END
  ELSE "update_instrctions_node"

\* ------------------------------------------------------- the built graphs
\* builder of the self-healing graph without the edge fix_code -> run_code
SelfHealingGraph_without_fix_edge ==
  [nodes |-> Nodes, entry |-> "run_code",
   edges |-> {<<"bug_report_node", "memory_search_node">>,
              <<"memory_generation_node", "update_code">>,
              <<"update_code", "fix_code">>},
   routers |-> {<<"run_code", "error_router">>,
                <<"memory_search_node", "modification_router">>,
                <<"memory_modification_node", "update_memory">>}]

\* builder of the self-healing graph with update_code wired to run_code
SelfHealingGraph_skips_fix_code ==
  [nodes |-> Nodes, entry |-> "run_code",
   edges |-> {<<"bug_report_node", "memory_search_node">>,
              <<"memory_generation_node", "update_code">>,
              <<"update_code", "run_code">>,
              <<"fix_code", "run_code">>},
   routers |-> {<<"run_code", "error_router">>,
                <<"memory_search_node", "modification_router">>,
                <<"memory_modification_node", "update_memory">>}]

\* add_node, set_entry_point, add_edge and add_conditional_edges calls
SelfHealingGraph ==
  [nodes |-> Nodes, entry |-> "run_code",
   edges |-> {<<"bug_report_node", "memory_search_node">>,
              <<"memory_generation_node", "update_code">>,
              <<"update_code", "fix_code">>,
              <<"fix_code", "run_code">>},
   routers |-> {<<"run_code", "error_router">>,
                <<"memory_search_node", "modification_router">>,
                <<"memory_modification_node", "update_memory">>}]

PartIIIGraph ==
  [nodes |-> {"memory_search_node", "memory_modification_node"},
   entry |-> "memory_search_node",
   edges |-> {},
   routers |-> {<<"memory_search_node", "III_modification_router">>,
                <<"memory_modification_node", "III_modification_router">>}]

MemoryGenerationGraph ==
  [nodes |-> {"memory_type_determination_node", "memory_generation_node"},
   entry |-> "memory_type_determination_node",
   edges |-> {},
   routers |-> {<<"memory_type_determination_node", "generate_memory">>,
                <<"memory_generation_node", "generate_memory">>}]

SchemaGraph ==
  [nodes |-> {"schema_generation_node", "update_instrctions_node"},
   entry |-> "schema_generation_node",
   edges |-> {<<"update_instrctions_node", "schema_generation_node">>},
   routers |-> {<<"schema_generation_node", "update_schema">>}]

\* the router function registered under a name; typed is what the user
\* types when the router asks (only update_schema asks)
Route(r, s, typed) ==
  CASE r = "error_router" -> error_router(s)
    [] r = "modification_router" -> modification_router(s)
    [] r = "update_memory" -> update_memory(s)
    [] r = "III_modification_router" -> III_modification_router(s)
    [] r = "generate_memory" -> generate_memory(s)
    [] r = "update_schema" -> update_schema(s, typed)

\* the ways out of node n registered with the builder
EdgesFrom(G, n) == {e \in G.edges : e[1] = n}
RoutersFrom(G, n) == {r \in G.routers : r[1] = n}
WaysOut(G, n) == Cardinality(EdgesFrom(G, n)) + Cardinality(RoutersFrom(G, n))

\* where the graph goes after node n returned s
Successors(G, n, s, typed) ==
  {e[2] : e \in EdgesFrom(G, n)} \cup {Route(r[2], s, typed) : r \in RoutersFrom(G, n)}

\* --------------------------------------------------------------- the run
\* a loop body that binds last_state only while it is unbound
Rebind_keeps_first(old, output) == IF old = <<>> THEN <<output>> ELSE old

\* last_state = output, the body of the loop over graph.stream(state)
Rebind(old, output) == <<output>>

Bump(c, n) == [c EXCEPT ![n] = IF @ < MaxCount THEN @ + 1 ELSE @]

\* run_self_healing_code_system: the State it constructs
NewState(f, args) ==
  [function |-> f, function_string |-> getsource(f), arguments |-> args,
   error |-> FALSE, error_description |-> "", new_function_string |-> EmptyText,
   bug_report |-> "", memories |-> <<>>, memory_indexes_to_update |-> <<>>]

Init ==
  /\ target \in Callables
  /\ \E args \in ArgLists : state = NewState(target, args)
  /\ pc = "run_code"
  /\ calls = [n \in Nodes |-> 0]
  /\ cycle = <<>>
  /\ invoked = "none"
  /\ answered = {}
  /\ wf = NoRun
  /\ cancel_requested = FALSE
  /\ last_state = <<>>

\* a node ran to completion: its output is emitted and the edge is followed
Emit(n, s) ==
  /\ state' = s
  /\ pc' \in Successors(SelfHealingGraph, n, s, "")
  /\ calls' = Bump(calls, n)
  /\ cycle' = IF n = "run_code" THEN <<n>> ELSE Append(cycle, n)
  /\ last_state' = Rebind(last_state, [node |-> n, state |-> s])
  /\ UNCHANGED env

\* an exception left the node: nothing is emitted, graph.stream raises
Raise(n) ==
  /\ pc' = RAISED
  /\ UNCHANGED <<state, calls, cycle, invoked, answered, env, last_state>>

RunCode ==
  /\ pc = "run_code"
  /\ LET s == run_code(state)
     IN  Emit("run_code", s)
  /\ invoked' = Invoke(state.function, state.arguments)
  /\ answered' = {}

BugReport ==
  /\ pc = "bug_report_node"
  /\ \E response \in BugReports \cup {LLMError} :
       IF response = LLMError THEN Raise("bug_report_node")
       ELSE /\ Emit("bug_report_node", bug_report_node(state, response))
            /\ answered' = {}
            /\ UNCHANGED invoked

MemorySearch ==
  /\ pc = "memory_search_node"
  /\ \/ Raise("memory_search_node")      \* llm.invoke or json.loads raised
     \/ \E indexes \in IndexLists :
          LET s == memory_search_node(state, indexes)
          IN  /\ Emit("memory_search_node", s)
              /\ answered' = {indexes}
              /\ UNCHANGED invoked

MemoryModification ==
  /\ pc = "memory_modification_node"
  /\ IF SubscriptRaises(state.memories, Head(state.memory_indexes_to_update))
     THEN Raise("memory_modification_node")
     ELSE \E response \in MemoryTexts \cup {LLMError} :
            IF response = LLMError THEN Raise("memory_modification_node")
            ELSE LET s == memory_modification_node(state, response)
                 IN  /\ Emit("memory_modification_node", s)
                     /\ answered' = {}
                     /\ UNCHANGED invoked

MemoryGeneration ==
  /\ pc = "memory_generation_node"
  /\ \E response \in MemoryTexts \cup {LLMError} :
       IF response = LLMError THEN Raise("memory_generation_node")
       ELSE IF Len(state.memories) >= MaxMemories
       THEN /\ pc' = CUTOFF
            /\ UNCHANGED <<state, calls, cycle, invoked, answered, env, last_state>>
       ELSE /\ Emit("memory_generation_node", memory_generation_node(state, response))
            /\ answered' = {}
            /\ UNCHANGED invoked

UpdateCode ==
  /\ pc = "update_code"
  /\ \/ Raise("update_code")             \* llm.invoke raised
     \/ \E response \in Texts :
          /\ Emit("update_code", update_code(state, response))
          /\ answered' = {}
          /\ UNCHANGED invoked

FixCode ==
  /\ pc = "fix_code"
  /\ Emit("fix_code", fix_code(state))
  /\ answered' = {}
  /\ UNCHANGED invoked

Next ==
  \/ RunCode
  \/ BugReport
  \/ MemorySearch
  \/ MemoryModification
  \/ MemoryGeneration
  \/ UpdateCode
  \/ FixCode

Spec == Init /\ [][Next]_vars

TypeOK ==
  /\ DOMAIN state = StateFields
  /\ pc \in Nodes \cup {END, RAISED, CUTOFF}
  /\ state.function \in Callables
  /\ state.new_function_string \in Texts
  /\ state.memory_indexes_to_update \in IndexLists

\* The caller calls run_self_healing_code_system again with the function
\* object it holds, after a run that returned: a new State is constructed.
SecondRun ==
  /\ pc = END
  /\ \E args \in ArgLists : state' = NewState(target, args)
  /\ pc' = "run_code"
  /\ calls' = [n \in Nodes |-> 0]
  /\ cycle' = <<>>
  /\ invoked' = "none"
  /\ answered' = {}
  /\ last_state' = <<>>
  /\ UNCHANGED env

\* Consecutive runs made by one caller.
RepeatSpec == Init /\ [][Next \/ SecondRun]_vars

\* A cancellation is requested for the running graph.  Nothing in
\* run_self_healing_code_system or in the nodes reads such a request.
RequestCancel ==
  /\ pc \in Nodes
  /\ ~cancel_requested
  /\ cancel_requested' = TRUE
  /\ UNCHANGED <<state, pc, calls, cycle, invoked, answered, target, wf, last_state>>

\* Runs during which a cancellation may be requested.
CancelSpec == Init /\ [][Next \/ RequestCancel]_vars

\* run_code is blocked in an invocation that does not return
BLOCKED == "blocked"

\* state.function(*state.arguments) never returns: run_code does not
\* complete, nothing is emitted and no router is evaluated.
RunCodeBlocks ==
  /\ pc = "run_code"
  /\ pc' = BLOCKED
  /\ UNCHANGED <<state, calls, cycle, invoked, answered, env, last_state>>

\* Runs whose target function may fail to return.
TimeoutSpec == Init /\ [][Next \/ RunCodeBlocks]_vars

\* run_self_healing_code_system has returned to its caller
RETURNED == "returned"

\* graph.stream is exhausted: return last_state (UnboundLocalError if the
\* loop body never ran)
Return ==
  /\ pc = END
  /\ pc' = IF last_state = <<>> THEN RAISED ELSE RETURNED
  /\ UNCHANGED <<state, calls, cycle, invoked, answered, env, last_state>>

\* Runs followed up to the return to the caller.
ReturnSpec == Init /\ [][Next \/ Return]_vars

\* The executor loop always runs the next node: a run that has a node to
\* execute does execute it.
FairSpec == Init /\ [][Next]_vars /\ WF_vars(Next)

\* ------------------------------------------------ runs of the other graphs
\* the variables of the self-healing run
run1 == <<state, pc, calls, cycle, invoked, answered, target, cancel_requested, last_state>>

\* no self-healing run is in progress
Parked ==
  /\ target = [name |-> "divide_two_numbers", body |-> [a \in ArgLists |-> "ok"]]
  /\ state = NewState(target, <<10, 2>>)
  /\ pc = END
  /\ calls = [n \in Nodes |-> 0]
  /\ cycle = <<>>
  /\ invoked = "none"
  /\ answered = {}
  /\ cancel_requested = FALSE
  /\ last_state = <<>>

\* node n of graph G ran to completion on the run in wf and returned s;
\* w is wf with the bookkeeping of the step
WfEmit(G, n, s, typed, w) ==
  /\ \E next \in Successors(G, n, s, typed) :
       wf' = [w EXCEPT !.state = s, !.pc = next, !.last = n]
  /\ UNCHANGED run1

\* an exception left the node; service tells an LLM failure from an
\* exception of the node's own code
WfRaise(service) ==
  /\ wf' = [wf EXCEPT !.pc = RAISED, !.failed = service]
  /\ UNCHANGED run1

\* run_memory_system(interaction, memory_schema, memories)
III_Init ==
  /\ Parked
  /\ \E mems \in SeqsUpTo(MemoryTexts, MaxMemories) :
       wf = [graph |-> "part_III", state |-> III_NewState(mems),
             pc |-> PartIIIGraph.entry, last |-> "none", failed |-> FALSE,
             memories0 |-> mems, returned |-> <<>>, searches |-> 0, modifications |-> 0]

III_MemorySearch ==
  /\ wf.graph = "part_III"
  /\ wf.pc = "memory_search_node"
  /\ \/ WfRaise(TRUE)                    \* llm.invoke or json.loads raised
     \/ \E indexes \in IndexLists :
          WfEmit(PartIIIGraph, "memory_search_node",
                 III_memory_search_node(wf.state, indexes), "",
                 [wf EXCEPT !.returned = indexes, !.searches = @ + 1])

III_MemoryModification ==
  /\ wf.graph = "part_III"
  /\ wf.pc = "memory_modification_node"
  /\ IF SubscriptRaises(wf.state.memories, Head(wf.state.memory_indexes_to_update))
     THEN WfRaise(FALSE)
     ELSE \E response \in MemoryTexts \cup {LLMError} :
            IF response = LLMError THEN WfRaise(TRUE)
            ELSE WfEmit(PartIIIGraph, "memory_modification_node",
                        III_memory_modification_node(wf.state, response), "",
                        [wf EXCEPT !.modifications = @ + 1])

III_Next == III_MemorySearch \/ III_MemoryModification

PartIIISpec == III_Init /\ [][III_Next]_vars

\* run_memory_generator(interaction, memory_schema)
MG_Init ==
  /\ Parked
  /\ wf = [graph |-> "memory_generation", state |-> MG_NewState,
           pc |-> MemoryGenerationGraph.entry, last |-> "none", failed |-> FALSE,
           labels0 |-> <<>>, asked |-> <<>>, determinations |-> 0]

MemoryTypeDetermination ==
  /\ wf.graph = "memory_generation"
  /\ wf.pc = "memory_type_determination_node"
  /\ \/ WfRaise(TRUE)                    \* llm.invoke raised
     \/ \E response \in Responses :
          LET s == memory_type_determination_node(wf.state, response)
          IN  WfEmit(MemoryGenerationGraph, "memory_type_determination_node", s, "",
                     [wf EXCEPT !.labels0 = s.memory_labels, !.determinations = @ + 1])

MG_MemoryGeneration ==
  /\ wf.graph = "memory_generation"
  /\ wf.pc = "memory_generation_node"
  /\ IF wf.state.memory_labels = <<>>
     THEN WfRaise(FALSE)                 \* memory_labels[0]: IndexError
     ELSE \E memory \in MemoryTexts \cup {LLMError} :
            IF memory = LLMError THEN WfRaise(TRUE)
            ELSE WfEmit(MemoryGenerationGraph, "memory_generation_node",
                        MG_memory_generation_node(wf.state, memory), "",
                        [wf EXCEPT !.asked = Append(@, [label |-> MG_memory_label(wf.state),
                                                        memory |-> memory])])

MG_Next == MemoryTypeDetermination \/ MG_MemoryGeneration

\* graph.stream keeps executing nodes until the graph ends or raises
MemGenSpec == MG_Init /\ [][MG_Next]_vars /\ WF_vars(MG_Next)

\* run_schema_generator(idea)
SG_Init ==
  /\ Parked
  /\ wf = [graph |-> "schema_generation", state |-> SG_NewState,
           pc |-> SchemaGraph.entry, last |-> "none", failed |-> FALSE,
           typed |-> "none", generated |-> <<>>]

SchemaGeneration ==
  /\ wf.graph = "schema_generation"
  /\ wf.pc = "schema_generation_node"
  /\ \/ WfRaise(TRUE)                    \* llm.invoke raised
     \/ IF Len(wf.generated) >= MaxSchemas
        THEN wf' = [wf EXCEPT !.pc = CUTOFF] /\ UNCHANGED run1
        ELSE \E memories \in Schemas, typed \in Answers :
               WfEmit(SchemaGraph, "schema_generation_node",
                      schema_generation_node(wf.state, memories), typed,
                      [wf EXCEPT !.typed = typed, !.generated = Append(@, memories)])

UpdateInstructions ==
  /\ wf.graph = "schema_generation"
  /\ wf.pc = "update_instrctions_node"
  /\ \E new_instructions \in Instructions :
       WfEmit(SchemaGraph, "update_instrctions_node",
              update_instrctions_node(wf.state, new_instructions), "", wf)

SG_Next == SchemaGeneration \/ UpdateInstructions

SchemaSpec == SG_Init /\ [][SG_Next]_vars

\* a run of any of the graphs
GraphsInit == Init \/ III_Init \/ MG_Init \/ SG_Init
GraphsNext == Next \/ III_Next \/ MG_Next \/ SG_Next
GraphsSpec == GraphsInit /\ [][GraphsNext]_vars

\* ------------------------------------------- two concurrent self-healing runs
\* What one execution of node n on State s can return and where the graph
\* goes next: the set of <<State, next>>.  An exception leaves the State as
\* it was and the run RAISED.
Outputs(n, s) ==
  LET go(s2) == {<<s2, next>> : next \in Successors(SelfHealingGraph, n, s2, "")}
      raised == {<<s, RAISED>>}
  IN  CASE n = "run_code" -> go(run_code(s))
        [] n = "bug_report_node" ->
             raised \cup UNION {go(bug_report_node(s, r)) : r \in BugReports}
        [] n = "memory_search_node" ->
             raised \cup UNION {go(memory_search_node(s, ix)) : ix \in IndexLists}
        [] n = "memory_modification_node" ->
             IF SubscriptRaises(s.memories, Head(s.memory_indexes_to_update)) THEN raised
             ELSE raised \cup UNION {go(memory_modification_node(s, r)) : r \in MemoryTexts}
        [] n = "memory_generation_node" ->
             raised \cup (IF Len(s.memories) >= MaxMemories THEN {<<s, CUTOFF>>}
                          ELSE UNION {go(memory_generation_node(s, r)) : r \in MemoryTexts})
        [] n = "update_code" ->
             raised \cup UNION {go(update_code(s, r)) : r \in Texts}
        [] n = "fix_code" -> go(fix_code(s))

\* The function both runs are asked to heal, and a fix that works.
Divide == [name |-> "divide_two_numbers",
           body |-> [a \in ArgLists |-> IF a[2] = 0 THEN "division by zero" ELSE "ok"]]
GoodFix == [name |-> "divide_two_numbers", body |-> [a \in ArgLists |-> "ok"]]

\* The LLM answers explored when two runs are interleaved.
Explored(s) ==
  /\ s.new_function_string \in {EmptyText, MalformedText, DefText(GoodFix)}
  /\ s.memory_indexes_to_update \in {<<>>, <<JsonInt(0)>>}
  /\ \A p \in 1 .. Len(s.memories) : s.memories[p] = "memory A"

ConcOutputs(n, s) == {o \in Outputs(n, s) : Explored(o[1])}

\* class State(BaseModel) with the defaults kept as shared class attributes
SharedDefaults_class_attributes == TRUE

\* Do two State objects built without a memories argument hold the same
\* list object?  pydantic copies a mutable default for every instance.
SharedDefaults == FALSE

\* The memories the State other holds once the run owning s2 has executed
\* a node: a list object held by both shows the in-place changes.
Seen(other, s2) == IF SharedDefaults THEN s2.memories ELSE other.memories

ConcInit ==
  /\ target = Divide
  /\ \E args \in ArgLists : state = NewState(target, args)
  /\ pc = "run_code"
  /\ calls = [n \in Nodes |-> 0]
  /\ cycle = <<>>
  /\ invoked = "none"
  /\ answered = {}
  /\ cancel_requested = FALSE
  /\ last_state = <<>>
  /\ wf = [graph |-> "self_healing", state |-> NewState(target, <<10, 0>>),
           pc |-> "run_code", turn |-> 0]

\* the first run executes a node (its bookkeeping variables are not kept here)
Step1 ==
  /\ pc \in Nodes
  /\ \E o \in ConcOutputs(pc, state) :
       /\ state' = o[1]
       /\ pc' = o[2]
       /\ wf' = [wf EXCEPT !.state.memories = Seen(wf.state, o[1]), !.turn = 1]
  /\ UNCHANGED <<calls, cycle, invoked, answered, target, cancel_requested, last_state>>

\* the second run executes a node
Step2 ==
  /\ wf.pc \in Nodes
  /\ \E o \in ConcOutputs(wf.pc, wf.state) :
       /\ wf' = [wf EXCEPT !.state = o[1], !.pc = o[2], !.turn = 2]
       /\ state' = [state EXCEPT !.memories = Seen(state, o[1])]
  /\ UNCHANGED <<pc, calls, cycle, invoked, answered, target, cancel_requested, last_state>>

ConcurrentSpec == ConcInit /\ [][Step1 \/ Step2]_vars

\* ------------------------------------------------------------------ claims
\* C1: the failure flag is true exactly when the most recent invocation of
\* the current function by run_code raised (so fix_code never turns it off).
C1_FlagIffLastInvocationRaised ==
  state.error <=> (invoked \in ErrorDescriptions)

\* C2: every run eventually ends (Terminal, an exception to the caller, or,
\* in this bounded model, the exploration bound): the repair loop is bounded.
C2_RunEventuallyEnds == <>(pc \in {END, RAISED, CUTOFF})

\* Some integer field of the State is larger after the step than before.
CounterIncreased ==
  \E k \in DOMAIN state :
    /\ FieldType[k] = "int"
    /\ state'[k] > state[k]

\* C3: the State carries a fix-attempt counter that every execution of
\* fix_code strictly increases.
C3_FixCodeIncreasesCounter ==
  [][pc = "fix_code" => CounterIncreased]_vars

\* C4: when the first invocation of the target function succeeds, the run
\* executes run_code once and no other node and ends healthy, with an empty
\* bug report, an empty pending fix text and the memory store it started with.
C4_ImmediateSuccessEndsHealthy ==
  [][(pc = "run_code" /\ calls["run_code"] = 0
        /\ Invoke(state.function, state.arguments) = "ok")
      => /\ pc' = END
         /\ calls' = [n \in Nodes |-> IF n = "run_code" THEN 1 ELSE 0]
         /\ ~state'.error
         /\ state'.bug_report = ""
         /\ state'.new_function_string = EmptyText
         /\ state'.memories = state.memories]_vars

\* A run that ended right after its first, successful, invocation.
C4_Witness ==
  /\ pc = END
  /\ invoked = "ok"
  /\ calls["run_code"] = 1
  /\ calls["fix_code"] = 0

\* i is an integer with 0 <= i < len(mems)
ValidIndex(i, mems) == i.int /\ 0 <= i.v /\ i.v < Len(mems)

\* C5: when the answer to memory_search_node contains an out-of-range or
\* non-integer value, nothing is raised, the pending queue is left empty and
\* the next node is memory_generation_node.
C5_InvalidAnswerRoutesToGeneration ==
  \A a \in answered :
    (\E k \in DOMAIN a : ~ValidIndex(a[k], state.memories))
      => /\ pc = "memory_generation_node"
         /\ state.memory_indexes_to_update = <<>>

\* C6: every element of the pending queue is an index of the memory store.
C6_PendingIndexesInRange ==
  \A k \in DOMAIN state.memory_indexes_to_update :
    ValidIndex(state.memory_indexes_to_update[k], state.memories)

\* C7: an execution of memory_modification_node whose popped index is i
\* leaves the length of the store and every record at a position j # i
\* (positions counted from 0) as they were.
C7_UpdateChangesOnlyRecordI ==
  [][(pc = "memory_modification_node" /\ pc' # RAISED)
      => LET i == Head(state.memory_indexes_to_update)
         IN  /\ Len(state'.memories) = Len(state.memories)
             /\ \A j \in 0 .. Len(state.memories) - 1 :
                  j # i.v => state'.memories[j + 1] = state.memories[j + 1]]_vars

\* C8 as stated: no run executes both memory_modification_node and
\* memory_generation_node.
C8_NoRunUpdatesAndGenerates ==
  ~(calls["memory_modification_node"] > 0 /\ calls["memory_generation_node"] > 0)

Occurs(n, trace) == \E k \in DOMAIN trace : trace[k] = n

\* C8 amended: within one repair cycle (from a run_code execution to the
\* next) memory_modification_node and memory_generation_node never both
\* execute, and after a search that left a non-empty queue the cycle never
\* enters memory_generation_node.
C8_NoCycleUpdatesAndGenerates ==
  /\ ~(Occurs("memory_modification_node", cycle) /\ Occurs("memory_generation_node", cycle))
  /\ (Occurs("memory_modification_node", cycle) \/ state.memory_indexes_to_update # <<>>)
       => pc # "memory_generation_node"

\* A cycle that updated a record, in a run that generated one in an earlier
\* cycle, has reached update_code.
C8_Witness ==
  /\ pc = "update_code"
  /\ Occurs("memory_modification_node", cycle)
  /\ calls["memory_generation_node"] > 0

\* C9: a fix_code execution whose exec or name lookup fails keeps the
\* function, increments the attempt counter by one, raises nothing and
\* goes on to run_code.
C9_FailedFixCountsAnAttempt ==
  [][(pc = "fix_code" /\ FixFails(state))
      => /\ state'.function = state.function
         /\ \E k \in DOMAIN state : FieldType[k] = "int" /\ state'[k] = state[k] + 1
         /\ pc' = "run_code"]_vars

\* The name of the function the run was started with, read from the source
\* snapshot taken at the start.
OriginalName(s) == (CHOOSE f \in s.function_string.defs : TRUE).name

\* C10: fix_code looks up the name of the original function: a fix text
\* that defines it replaces the function, any other leaves it unchanged.
C10_FixLooksUpOriginalName ==
  [][pc = "fix_code"
      => LET text == state.new_function_string
             found == IF text.loads
                      THEN {f \in text.defs : f.name = OriginalName(state)}
                      ELSE {}
         IN  IF found # {} THEN state'.function \in found
             ELSE state'.function = state.function]_vars

\* C11: a run_code execution whose invocation returns leaves the failure
\* flag false and the failure description empty, and keeps the function.
C11_SuccessClearsFlagAndDescription ==
  [][(pc = "run_code" /\ Invoke(state.function, state.arguments) = "ok")
      => /\ ~state'.error
         /\ state'.error_description = ""
         /\ state'.function = state.function]_vars

\* C12: a run_code execution whose invocation raises sets the failure flag,
\* stores the description of that error, and keeps the arguments, the
\* function and the memory store.
C12_FailureSetsFlagAndDescription ==
  [][(pc = "run_code" /\ Invoke(state.function, state.arguments) # "ok")
      => /\ state'.error
         /\ state'.error_description = Invoke(state.function, state.arguments)
         /\ state'.arguments = state.arguments
         /\ state'.function = state.function
         /\ state'.memories = state.memories]_vars

\* run_code has just recorded a raised error.
C12_Witness ==
  /\ cycle = <<"run_code">>
  /\ invoked \in ErrorDescriptions
  /\ state.error
  /\ state.error_description = invoked

\* The step is a node execution ended by an exception of the reasoning
\* service (llm.invoke, or json.loads on its answer), not by a subscript.
ServiceFailure ==
  /\ pc \in Nodes \ {"run_code", "fix_code"}
  /\ pc' = RAISED
  /\ ~(/\ pc = "memory_modification_node"
       /\ SubscriptRaises(state.memories, Head(state.memory_indexes_to_update)))

\* C13: a failed reasoning-service call ends the run at once (aborted), with
\* the function and the attempt counter as they were before the node.
C13_ServiceFailureAborts ==
  [][ServiceFailure
      => /\ state'.function = state.function
         /\ \E k \in DOMAIN state : FieldType[k] = "int" /\ state'[k] = state[k]]_vars

C15_TerminalStatusesAreJustified ==
  [][/\ pc' = END => invoked' = "ok"
     /\ pc' = RAISED => ServiceFailure]_vars

\* The successions of nodes the graph allows.
AllowedEdges ==
  {<<"run_code", "bug_report_node">>,
   <<"bug_report_node", "memory_search_node">>,
   <<"memory_search_node", "memory_modification_node">>,
   <<"memory_search_node", "memory_generation_node">>,
   <<"memory_modification_node", "memory_modification_node">>,
   <<"memory_modification_node", "update_code">>,
   <<"memory_generation_node", "update_code">>,
   <<"update_code", "fix_code">>,
   <<"fix_code", "run_code">>}

\* C16: the run starts at run_code, every succession of two nodes is one of
\* the allowed edges, and Terminal is entered only from run_code.
C16_OnlyAllowedTransitions ==
  /\ pc = "run_code"
  /\ [][/\ pc' \in Nodes => <<pc, pc'>> \in AllowedEdges
        /\ pc' = END => pc = "run_code"]_vars

\* A run that took both memory branches and a fix has ended.
C16_Witness ==
  /\ pc = END
  /\ calls["memory_modification_node"] > 0
  /\ calls["memory_generation_node"] > 0
  /\ calls["fix_code"] > 0

ScenarioA ==
  <<"run_code", "bug_report_node", "memory_search_node",
    "memory_generation_node", "update_code", "fix_code">>

\* C17: from an empty store, when the first invocation fails, the search
\* returns no index and the first fix loads and makes the re-invocation
\* succeed, the nodes executed are run_code, bug_report_node,
\* memory_search_node, memory_generation_node, update_code, fix_code,
\* run_code, and the run ends healthy with exactly one memory record.
C17_ScenarioA ==
  [][(/\ pc = "run_code"
      /\ calls["run_code"] = 1
      /\ Occurs("memory_generation_node", cycle)
      /\ ~FixFails(state)
      /\ Invoke(state.function, state.arguments) = "ok")
      => /\ cycle = ScenarioA
         /\ calls = [n \in Nodes |-> IF n = "memory_modification_node" THEN 0 ELSE 1]
         /\ cycle' = <<"run_code">>
         /\ pc' = END
         /\ ~state'.error
         /\ Len(state'.memories) = 1]_vars

\* The run of scenario A has ended.
C17_Witness ==
  /\ pc = END
  /\ invoked = "ok"
  /\ calls["fix_code"] = 1
  /\ calls["memory_generation_node"] = 1
  /\ calls["memory_modification_node"] = 0
  /\ ~FixFails(state)
  /\ state.function \in state.new_function_string.defs
  /\ Len(state.memories) = 1

\* C18: a run made after a run that returned starts from the function the
\* earlier run installed and from the earlier run's memory store.
C18_SecondRunInheritsFixAndMemories ==
  [][(pc = END /\ pc' = "run_code")
      => /\ state'.function = state.function
         /\ state'.memories = state.memories]_vars

\* C19: memory_generation_node executes only with an empty pending queue,
\* appends exactly one record, keeps the existing records in place, and is
\* followed by update_code.
C19_GenerationAppendsOneRecord ==
  [][pc = "memory_generation_node"
      => /\ state.memory_indexes_to_update = <<>>
         /\ pc' \in Nodes
              => /\ Len(state'.memories) = Len(state.memories) + 1
                 /\ SubSeq(state'.memories, 1, Len(state.memories)) = state.memories
                 /\ pc' = "update_code"]_vars

\* A second record has been appended behind a first one.
C19_Witness ==
  /\ pc = "update_code"
  /\ cycle[Len(cycle)] = "memory_generation_node"
  /\ Len(state.memories) = 2
  /\ state.memories[1] # state.memories[2]

\* C20: every memory_modification_node execution (a failed reasoning-service
\* call excepted) removes exactly the head of the pending queue and is
\* followed by itself while the queue is non-empty and by update_code once
\* it is empty, so a list of n indexes is consumed by n consecutive
\* executions in list order.
C20_UpdatePopsHeadUntilEmpty ==
  [][pc = "memory_modification_node"
      => \/ ServiceFailure
         \/ /\ state'.memory_indexes_to_update = Tail(state.memory_indexes_to_update)
            /\ pc' = IF state'.memory_indexes_to_update # <<>>
                     THEN "memory_modification_node" ELSE "update_code"]_vars

StepIsAnOutput == <<state', pc'>> \in Outputs(pc, state)
OutputsAreTheSteps == [][StepIsAnOutput]_vars

C23_NoNodeAfterCancel ==
  [][cancel_requested => UNCHANGED <<state, pc, calls>>]_vars

\* C24: an invocation that does not return is handled like a raised error:
\* run_code completes with the failure flag set and the router continues
\* with bug_report_node.
C24_TimeoutIsAFailure ==
  [][(pc = "run_code" /\ pc' # END)
      => /\ pc' = "bug_report_node"
         /\ state'.error
         /\ state'.error_description # ""]_vars

\* C30: the source text read by bug_report_node and update_code is the
\* definition of the function the run currently holds.
C30_SnapshotIsCurrentFunction ==
  pc \in {"bug_report_node", "update_code"}
    => state.function_string = getsource(state.function)

\* The graphs the notebooks build.
Graphs == {SelfHealingGraph, PartIIIGraph, MemoryGenerationGraph, SchemaGraph}

GraphOf(w) ==
  CASE w.graph = "part_III" -> PartIIIGraph
    [] w.graph = "memory_generation" -> MemoryGenerationGraph
    [] w.graph = "schema_generation" -> SchemaGraph

\* C25: in each built graph every node has exactly one way out (a router or
\* one unconditional successor), and after every completed node the graph
\* defines exactly one next step, a registered node or END.
C25_EveryNodeHasOneWayOut ==
  /\ \A G \in Graphs : \A n \in G.nodes : WaysOut(G, n) = 1
  /\ (cycle # <<>> /\ pc \notin {RAISED, CUTOFF})
       => /\ pc \in SelfHealingGraph.nodes \cup {END}
          /\ Successors(SelfHealingGraph, cycle[Len(cycle)], state, "") = {pc}
  /\ (wf.graph # "none" /\ wf.last # "none" /\ wf.pc \notin {RAISED, CUTOFF})
       => /\ wf.pc \in GraphOf(wf).nodes \cup {END}
          /\ Successors(GraphOf(wf), wf.last, wf.state,
                        IF wf.graph = "schema_generation" THEN wf.typed ELSE "") = {wf.pc}

\* A repair cycle went all the way round: fix_code handed over to run_code.
C25_Witness ==
  /\ pc = "run_code"
  /\ cycle # <<>>
  /\ cycle[Len(cycle)] = "fix_code"
  /\ calls["memory_modification_node"] > 0

\* C26: memory_schema is the generated schemas in generation order: each
\* schema_generation_node execution appends one entry and keeps the earlier
\* ones, update_instrctions_node leaves the list alone.
C26_SchemaHistoryIsAppendOnly ==
  /\ [](wf.state.memory_schema = wf.generated)
  /\ [][/\ (wf.pc = "schema_generation_node" /\ wf'.pc \notin {RAISED, CUTOFF})
             => /\ Len(wf'.state.memory_schema) = Len(wf.state.memory_schema) + 1
                /\ SubSeq(wf'.state.memory_schema, 1, Len(wf.state.memory_schema))
                     = wf.state.memory_schema
        /\ wf.pc = "update_instrctions_node"
             => wf'.state.memory_schema = wf.state.memory_schema]_vars

\* Two different schemas were generated, with new instructions in between.
C26_Witness ==
  /\ wf.last = "schema_generation_node"
  /\ wf.state.update_instructions # None
  /\ Len(wf.state.memory_schema) = 2
  /\ wf.state.memory_schema[1] # wf.state.memory_schema[2]

\* the answers that end the schema-generation run
StopAnswers == {"no", "n", "quit", "q", "exit", "e"}

\* C27: the schema-generation run reaches END only from
\* schema_generation_node and exactly when the user's answer is a stop
\* answer; any other answer leads to update_instrctions_node, which leads
\* back to schema_generation_node.
C27_EndsExactlyOnStopAnswer ==
  [][/\ wf'.pc = END => (wf.pc = "schema_generation_node" /\ wf'.typed \in StopAnswers)
     /\ (wf.pc = "schema_generation_node" /\ wf'.pc \notin {RAISED, CUTOFF})
          => /\ wf'.typed \in StopAnswers => wf'.pc = END
             /\ wf'.typed \notin StopAnswers => wf'.pc = "update_instrctions_node"
     /\ wf.pc = "update_instrctions_node" => wf'.pc = "schema_generation_node"]_vars

\* The user asked for one more iteration with 'No', then stopped with 'q'.
C27_Witness ==
  /\ wf.pc = END
  /\ wf.typed = "q"
  /\ Len(wf.generated) = 2
  /\ wf.state.update_instructions = "no"

C28_Inv ==
  /\ wf.determinations <= 1
  /\ wf.determinations = 1
       => /\ Len(wf.labels0) >= 1
          /\ wf.state.memory_labels
               = SubSeq(wf.labels0, Len(wf.asked) + 1, Len(wf.labels0))
          /\ Len(wf.state.memories) = Len(wf.asked)
          /\ \A i \in 1 .. Len(wf.asked) :
               /\ wf.asked[i].label = wf.labels0[i]
               /\ wf.state.memories[i] = wf.asked[i].memory
  /\ wf.pc = END => (wf.determinations = 1 /\ wf.state.memory_labels = <<>>)
  /\ wf.pc = RAISED => wf.failed

\* C28: for the n labels of memory_type_determination_node,
\* memory_generation_node runs once per label, head first, the i-th memory
\* appended is the answer to the prompt for the i-th label, and the run ends
\* with memory_labels empty (or by a failure of the LLM service).
C28_OneMemoryPerLabelInOrder ==
  /\ []C28_Inv
  /\ <>(wf.pc \in {END, RAISED})

\* Two different labels, two memories.
C28_Witness ==
  /\ wf.pc = END
  /\ Len(wf.labels0) = 2
  /\ wf.labels0[1] # wf.labels0[2]
  /\ Len(wf.state.memories) = 2
  /\ wf.state.memories[1] # wf.state.memories[2]

\* C29: a Part III run searches once, modifies once per returned index and
\* ends (only a failure of the LLM service stops it early) with as many
\* memories as it started with; an empty search ends it at once with the
\* memories unchanged.
C29_OneModificationPerIndex ==
  /\ wf.searches <= 1
  /\ wf.pc = RAISED => wf.failed
  /\ wf.pc = END
       => /\ wf.searches = 1
          /\ wf.modifications = Len(wf.returned)
          /\ Len(wf.state.memories) = Len(wf.memories0)
          /\ wf.returned = <<>>
               => (wf.last = "memory_search_node" /\ wf.state.memories = wf.memories0)

\* The node sequence of a complete repair cycle, from one run_code up to the
\* next: report, search, then one generation or a run of updates, then the
\* fix proposal and its installation.
IsRepairCycle(c) ==
  /\ Len(c) >= 6
  /\ c[1] = "run_code"
  /\ c[2] = "bug_report_node"
  /\ c[3] = "memory_search_node"
  /\ \/ Len(c) = 6 /\ c[4] = "memory_generation_node"
     \/ \A k \in 4 .. Len(c) - 2 : c[k] = "memory_modification_node"
  /\ c[Len(c) - 1] = "update_code"
  /\ c[Len(c)] = "fix_code"

\* C31: between two consecutive run_code executions the run executes
\* bug_report_node, memory_search_node, then either one
\* memory_generation_node or one or more memory_modification_node, then
\* update_code and fix_code, each once and in that order.
C31_CycleShape == (pc = "run_code" /\ cycle # <<>>) => IsRepairCycle(cycle)

\* A cycle with two memory updates is complete.
C31_Witness ==
  /\ pc = "run_code"
  /\ Len(cycle) = 7
  /\ cycle[5] = "memory_modification_node"

\* C32: a run ends only by the router after run_code, or by a failure of
\* the reasoning service inside a node.
C32_EndsOnlyAfterRunCode ==
  [][(pc \in Nodes /\ pc' \in {END, RAISED}) => (pc = "run_code" \/ ServiceFailure)]_vars

\* C33: memory_indexes_to_update is empty whenever update_code, fix_code or
\* run_code is about to execute and when the run has ended.
C33_QueueEmptyOutsideMemoryPhase ==
  pc \in {"update_code", "fix_code", "run_code", END} => state.memory_indexes_to_update = <<>>

\* The update loop has consumed a queue of two indexes.
C33_Witness ==
  /\ pc = "update_code"
  /\ Len(cycle) = 5
  /\ cycle[4] = "memory_modification_node"
  /\ cycle[5] = "memory_modification_node"
  /\ state.memory_indexes_to_update = <<>>

\* C34: state.function changes only in a fix_code execution whose exec and
\* name lookup succeed; a failed fix_code keeps it.
C34_FunctionChangesOnlyInLoadedFix ==
  [][/\ state'.function # state.function => (pc = "fix_code" /\ ~FixFails(state))
     /\ (pc = "fix_code" /\ FixFails(state)) => state'.function = state.function]_vars

\* A fix was installed, and a later fix text failed to load and was dropped.
C34_Witness ==
  /\ pc = "run_code"
  /\ cycle # <<>>
  /\ state.function # target
  /\ FixFails(state)

\* C35: no node changes state.arguments, and run_code invokes the current
\* function with them.
C35_ArgumentsNeverChange ==
  [][/\ state'.arguments = state.arguments
     /\ pc = "run_code" => invoked' = Invoke(state.function, state.arguments)]_vars

\* The run ended healthy on the failing arguments after a fix.
C35_Witness ==
  /\ pc = END
  /\ state.arguments = <<10, 0>>
  /\ state.function # target
  /\ invoked = "ok"

\* C36: state.memories changes only in memory_modification_node and
\* memory_generation_node executions.
C36_StoreChangesOnlyInMemoryNodes ==
  [][state'.memories # state.memories
       => pc \in {"memory_modification_node", "memory_generation_node"}]_vars

\* A second cycle has searched a store of two records.
C36_Witness ==
  /\ pc = "memory_modification_node"
  /\ cycle = <<"run_code", "bug_report_node", "memory_search_node">>
  /\ Len(state.memories) = 2
  /\ state.memories[1] # state.memories[2]

\* C37: what run_self_healing_code_system returns is the output of the
\* last node executed, a run_code, holding the State the run ended with
\* (its function, memories and bug_report).
C37_ReturnsLastRunCodeOutput ==
  pc = RETURNED
    => /\ last_state # <<>>
       /\ last_state[1].node = "run_code"
       /\ last_state[1].node = cycle[Len(cycle)]
       /\ last_state[1].state = state

\* A run that needed a repair cycle has returned.
C37_Witness ==
  /\ pc = RETURNED
  /\ state.function # target
  /\ state.memories # <<>>
  /\ state.bug_report # ""
  /\ last_state[1].state.bug_report = state.bug_report

====
